---- MODULE Spec2Model ----
(***************************************************************************)
(* A model of create-srt (src/src/main.rs): the pipeline of main, from the *)
(* file picker to the removal of the transient WAV file, with the external *)
(* decode process (ffmpeg) as a concurrent producer on a pipe, and the     *)
(* pure function format_srt_time.                                          *)
(*                                                                         *)
(* Strings are sequences of one-character strings.  Every fallible call of *)
(* main (each `?`, expect and unwrap) has a success action and a failure   *)
(* action.                                                                 *)
(***************************************************************************)
EXTENDS Integers, Sequences, FiniteSets, TLC

\* ------------------------------------------------------------------ bounds
\* Longest byte stream the decode process delivers.
MaxBytes == 4
\* Most segments the recognition engine returns.
MaxSegs == 2
\* Largest hour count among the tick inputs of format_srt_time is taken
\* from HourSamples; MaxSmallTick adds the dense range 0..MaxSmallTick.
MaxSmallTick == 120

\* Byte values on the pipe (0x00 and 0xFF: the two orders of a pair decode
\* to different samples, and 0xFF in the high byte makes a negative one).
ByteValues == {0, 255}

\* Texts the engine returns: empty, whitespace only, and padded text with
\* internal whitespace.
SegmentTexts == { <<>>, <<" ">>, <<" ", "a", " ", "b", "\n">> }

\* (t0, t1) pairs the engine returns, in 10 ms ticks.
SegmentTimes == { <<0, 100>>, <<5999, 360000>> }

Segment == { [text |-> x, t0 |-> p[1], t1 |-> p[2]] : x \in SegmentTexts, p \in SegmentTimes }

RECURSIVE SeqsUpTo(_, _)
SeqsUpTo(S, n) ==
  IF n = 0 THEN { <<>> }
  ELSE LET shorter == SeqsUpTo(S, n - 1)
       IN  shorter \cup { Append(s, x) : s \in { q \in shorter : Len(q) = n - 1 }, x \in S }

HourSamples == {0, 1, 9, 10, 99, 100}

TickInputs ==
  (0 .. MaxSmallTick) \cup
  { h * 360000 + m * 6000 + s * 100 + c :
      h \in HourSamples, m \in {0, 1, 59}, s \in {0, 1, 59}, c \in {0, 1, 99} }

\* ------------------------------------------------------- integer helpers
Abs(n) == IF n < 0 THEN -n ELSE n

\* Rust's / and % on i64 truncate toward zero.
TruncDiv(a, b) == IF a >= 0 THEN a \div b ELSE -((-a) \div b)

TruncRem(a, b) == a - b * TruncDiv(a, b)

DigitChar(d) == <<"0", "1", "2", "3", "4", "5", "6", "7", "8", "9">>[d + 1]

RECURSIVE Digits(_)
Digits(n) == IF n < 10 THEN <<DigitChar(n)>> ELSE Append(Digits(n \div 10), DigitChar(n % 10))

RECURSIVE Zeros(_)
Zeros(k) == IF k <= 0 THEN <<>> ELSE <<"0">> \o Zeros(k - 1)

\* format!("{}", n) of an integer.
Display(n) == IF n < 0 THEN <<"-">> \o Digits(-n) ELSE Digits(n)

\* format!("{:0w}", n): sign first, then zeros up to the width w, then the
\* digits; never truncated.
ZeroPad(n, w) ==
  LET sign == IF n < 0 THEN <<"-">> ELSE <<>>
      d    == Digits(Abs(n))
  IN  sign \o Zeros(w - Len(sign) - Len(d)) \o d

\* ------------------------------------------------------- format_srt_time
format_srt_time_mut(whisper_time) ==
  LET milliseconds == whisper_time * 10
      seconds      == TruncDiv(milliseconds, 1000)
      ms           == TruncRem(milliseconds, 1000)
      minutes      == TruncDiv(seconds, 60)
      hours        == TruncDiv(minutes, 60)
  IN  ZeroPad(hours, 2) \o <<":">> \o ZeroPad(minutes, 2) \o <<":">>
        \o ZeroPad(TruncRem(seconds, 60), 2) \o <<",">> \o ZeroPad(ms, 3)

format_srt_time(whisper_time) ==
  LET milliseconds == whisper_time * 10
      seconds      == TruncDiv(milliseconds, 1000)
      ms           == TruncRem(milliseconds, 1000)
      minutes      == TruncDiv(seconds, 60)
      hours        == TruncDiv(minutes, 60)
  IN  ZeroPad(hours, 2) \o <<":">> \o ZeroPad(TruncRem(minutes, 60), 2) \o <<":">>
        \o ZeroPad(TruncRem(seconds, 60), 2) \o <<",">> \o ZeroPad(ms, 3)

\* ------------------------------------------------------------ str::trim
WhiteSpace == {" ", "\n", "\t"}

RECURSIVE trim_start(_)
trim_start(s) ==
  IF s = <<>> THEN s
  ELSE IF Head(s) \in WhiteSpace THEN trim_start(Tail(s)) ELSE s

RECURSIVE trim_end(_)
trim_end(s) ==
  IF s = <<>> THEN s
  ELSE IF s[Len(s)] \in WhiteSpace THEN trim_end(SubSeq(s, 1, Len(s) - 1)) ELSE s

trim(s) == trim_end(trim_start(s))

\* The cue block of segment i (0-based): "{}\n{} --> {}\n{}\n\n".
srt_segment_mut(i, seg) ==
  Display(i) \o <<"\n">>
    \o format_srt_time(seg.t0) \o <<" ", "-", "-", ">", " ">> \o format_srt_time(seg.t1)
    \o <<"\n">> \o trim(seg.text) \o <<"\n", "\n">>

srt_segment(i, seg) ==
  Display(i + 1) \o <<"\n">>
    \o format_srt_time(seg.t0) \o <<" ", "-", "-", ">", " ">> \o format_srt_time(seg.t1)
    \o <<"\n">> \o trim(seg.text) \o <<"\n", "\n">>

\* ---------------------------------------------------- i16::from_le_bytes
ToI16(u) == IF u >= 32768 THEN u - 65536 ELSE u

from_le_bytes_mut(b) == ToI16(b[2] + 256 * b[1])

from_le_bytes(b) == ToI16(b[1] + 256 * b[2])

\* s as f32 / 32768.0, kept exact as the pair <<numerator, denominator>>.
normalize(s) == <<s, 32768>>


\* ------------------------------------------------------------------ state
VARIABLES
  pc,            \* position of main
  result,        \* "running", or how main ended: "ok", "err" (Err returned), "panic"
  error,         \* the call whose error main returned, "none" otherwise
  file_path,     \* outcome of pick_file: "unset", "none", "some"
  model_exists,  \* the model file is present at model_path
  wav_file,      \* output_wav on disk: "absent", "open" (being written), "finalized"
  wav_samples,   \* the samples written to output_wav
  srt_file,      \* srt_output on disk: "absent", "empty", "partial", "complete"
  srt_bytes,     \* the contents of srt_output once complete
  child,         \* the ffmpeg process: "none", "running", "exited", "reaped"
  stream,        \* the bytes ffmpeg delivers on its stdout over its lifetime
  exit_code,     \* the exit status ffmpeg ends with
  sent,          \* how many bytes of stream ffmpeg has written to the pipe
  pipe,          \* bytes in the pipe, written and not yet read
  bufd,          \* the BufReader's internal buffer
  buffer,        \* the filled part of the 2-byte buffer of read_exact
  ctx,           \* the WhisperContext is loaded
  audio_data,    \* the normalized samples
  segments,      \* the segments held by the engine state after full()
  num_segments,
  i,             \* loop index of the segment loop
  srt_content,
  ran,           \* the stages that have started
  fmt_in,        \* argument of a stand-alone call of format_srt_time
  fmt_out        \* its result, <<>> before the call

vars == << pc, result, error, file_path, model_exists, wav_file, wav_samples, srt_file,
           srt_bytes, child, stream, exit_code, sent, pipe, bufd, buffer, ctx, audio_data,
           segments, num_segments, i, srt_content, ran, fmt_in, fmt_out >>

fsVars   == << model_exists, wav_file, wav_samples, srt_file, srt_bytes >>
procVars == << child, stream, exit_code, sent, pipe, bufd, buffer >>
memVars  == << ctx, audio_data, segments, num_segments, i, srt_content >>
fmtVars  == << fmt_in, fmt_out >>

PipelineInit ==
  /\ pc = "pick"
  /\ result = "running"
  /\ error = "none"
  /\ file_path = "unset"
  /\ wav_file = "absent"
  /\ wav_samples = <<>>
  /\ srt_file = "absent"
  /\ srt_bytes = <<>>
  /\ child = "none"
  /\ sent = 0
  /\ pipe = <<>>
  /\ bufd = <<>>
  /\ buffer = <<>>
  /\ ctx = FALSE
  /\ audio_data = <<>>
  /\ segments = <<>>
  /\ num_segments = 0
  /\ i = 0
  /\ srt_content = <<>>
  /\ ran = {}

Init ==
  /\ PipelineInit
  /\ model_exists \in BOOLEAN
  /\ stream \in SeqsUpTo(ByteValues, MaxBytes)
  /\ exit_code \in {0, 1}
  /\ fmt_in = 0
  /\ fmt_out = <<>>

\* return Err(..) from main, out of the call named e.
Fail(e) ==
  /\ pc' = "done"
  /\ result' = "err"
  /\ error' = e

\* A panic (expect, unwrap) in the call named e.
Panic(e) ==
  /\ pc' = "done"
  /\ result' = "panic"
  /\ error' = e

\* ------------------------------------------------------------ file picker
PickNone_mut ==
  /\ pc = "pick"
  /\ file_path' = "none"
  /\ pc' = "spawn"
  /\ UNCHANGED << result, error, ran, fsVars, procVars, memVars, fmtVars >>

PickNone ==
  /\ pc = "pick"
  /\ file_path' = "none"
  /\ pc' = "done"
  /\ result' = "ok"
  /\ UNCHANGED << error, ran, fsVars, procVars, memVars, fmtVars >>

PickSome ==
  /\ pc = "pick"
  /\ file_path' = "some"
  /\ pc' = "spawn"
  /\ UNCHANGED << result, error, ran, fsVars, procVars, memVars, fmtVars >>

\* ------------------------------------------------------------- 1. decode
SpawnOk ==
  /\ pc = "spawn"
  /\ ran' = ran \cup {"decode"}
  /\ child' = "running"
  /\ pc' = "create_wav"
  /\ UNCHANGED << result, error, file_path, fsVars, stream, exit_code, sent, pipe, bufd,
                  buffer, memVars, fmtVars >>

SpawnErr ==
  /\ pc = "spawn"
  /\ ran' = ran \cup {"decode"}
  /\ Fail("spawn")
  /\ UNCHANGED << file_path, fsVars, procVars, memVars, fmtVars >>

CreateWavOk ==
  /\ pc = "create_wav"
  /\ wav_file' = "open"
  /\ wav_samples' = <<>>
  /\ pc' = "read_loop"
  /\ UNCHANGED << result, error, file_path, ran, model_exists, srt_file, srt_bytes,
                  procVars, memVars, fmtVars >>

CreateWavErr ==
  /\ pc = "create_wav"
  /\ Fail("create_wav")
  /\ UNCHANGED << file_path, ran, fsVars, procVars, memVars, fmtVars >>

\* ffmpeg writes the next k bytes of its output to the pipe.
FfmpegWrite ==
  /\ child = "running"
  /\ pc # "done"
  /\ \E k \in 1 .. (Len(stream) - sent) :
       /\ pipe' = pipe \o SubSeq(stream, sent + 1, sent + k)
       /\ sent' = sent + k
  /\ UNCHANGED << pc, result, error, file_path, ran, fsVars, child, stream, exit_code,
                  bufd, buffer, memVars, fmtVars >>

\* ffmpeg has written everything and exits, closing its end of the pipe.
FfmpegExit ==
  /\ child = "running"
  /\ pc # "done"
  /\ sent = Len(stream)
  /\ child' = "exited"
  /\ UNCHANGED << pc, result, error, file_path, ran, fsVars, stream, exit_code, sent,
                  pipe, bufd, buffer, memVars, fmtVars >>

\* read_exact: the BufReader is empty and refills from the pipe with one read.
ReadFill ==
  /\ pc = "read_loop"
  /\ bufd = <<>>
  /\ pipe # <<>>
  /\ bufd' = pipe
  /\ pipe' = <<>>
  /\ UNCHANGED << pc, result, error, file_path, ran, fsVars, child, stream, exit_code,
                  sent, buffer, memVars, fmtVars >>

\* read_exact: the BufReader holds fewer bytes than the buffer still needs.
ReadPartial ==
  /\ pc = "read_loop"
  /\ bufd # <<>>
  /\ Len(buffer) + Len(bufd) < 2
  /\ buffer' = buffer \o bufd
  /\ bufd' = <<>>
  /\ UNCHANGED << pc, result, error, file_path, ran, fsVars, child, stream, exit_code,
                  sent, pipe, memVars, fmtVars >>

\* read_exact returns Ok: the buffer is full, the sample is decoded and written.
ReadSample ==
  /\ pc = "read_loop"
  /\ bufd # <<>>
  /\ Len(buffer) + Len(bufd) >= 2
  /\ LET need == 2 - Len(buffer)
         full == buffer \o SubSeq(bufd, 1, need)
     IN  /\ wav_samples' = Append(wav_samples, from_le_bytes(full))
         /\ bufd' = SubSeq(bufd, need + 1, Len(bufd))
  /\ buffer' = <<>>
  /\ UNCHANGED << pc, result, error, file_path, ran, model_exists, wav_file, srt_file,
                  srt_bytes, child, stream, exit_code, sent, pipe, memVars, fmtVars >>

\* read_exact returns Ok and write_sample fails.
WriteSampleErr ==
  /\ pc = "read_loop"
  /\ bufd # <<>>
  /\ Len(buffer) + Len(bufd) >= 2
  /\ Fail("write_sample")
  /\ UNCHANGED << file_path, ran, fsVars, procVars, memVars, fmtVars >>

\* read_exact returns Err(UnexpectedEof): is_ok() is false and the loop ends,
\* whatever the buffer holds.
ReadEof ==
  /\ pc = "read_loop"
  /\ bufd = <<>>
  /\ pipe = <<>>
  /\ child = "exited"
  /\ pc' = "wait"
  /\ UNCHANGED << result, error, file_path, ran, fsVars, procVars, memVars, fmtVars >>

\* child.wait()? : Ok whatever the exit status.
WaitOk ==
  /\ pc = "wait"
  /\ child = "exited"
  /\ child' = "reaped"
  /\ pc' = "finalize"
  /\ UNCHANGED << result, error, file_path, ran, fsVars, stream, exit_code, sent, pipe,
                  bufd, buffer, memVars, fmtVars >>

WaitErr ==
  /\ pc = "wait"
  /\ child = "exited"
  /\ Fail("wait")
  /\ UNCHANGED << file_path, ran, fsVars, procVars, memVars, fmtVars >>

FinalizeOk ==
  /\ pc = "finalize"
  /\ wav_file' = "finalized"
  /\ pc' = "model_check"
  /\ UNCHANGED << result, error, file_path, ran, model_exists, wav_samples, srt_file,
                  srt_bytes, procVars, memVars, fmtVars >>

FinalizeErr ==
  /\ pc = "finalize"
  /\ Fail("finalize")
  /\ UNCHANGED << file_path, ran, fsVars, procVars, memVars, fmtVars >>

\* ---------------------------------------------------------- 2. model load
ModelMissing ==
  /\ pc = "model_check"
  /\ ~model_exists
  /\ Fail("model_missing")
  /\ UNCHANGED << file_path, ran, fsVars, procVars, memVars, fmtVars >>

ModelPresent ==
  /\ pc = "model_check"
  /\ model_exists
  /\ pc' = "model_load"
  /\ UNCHANGED << result, error, file_path, ran, fsVars, procVars, memVars, fmtVars >>

ModelLoadOk ==
  /\ pc = "model_load"
  /\ ctx' = TRUE
  /\ pc' = "wav_open"
  /\ UNCHANGED << result, error, file_path, ran, fsVars, procVars, audio_data, segments,
                  num_segments, i, srt_content, fmtVars >>

ModelLoadErr ==
  /\ pc = "model_load"
  /\ Fail("model_load")
  /\ UNCHANGED << file_path, ran, fsVars, procVars, memVars, fmtVars >>

\* ----------------------------------------------------------- 3. normalize
WavOpenOk ==
  /\ pc = "wav_open"
  /\ ran' = ran \cup {"normalize"}
  /\ audio_data' = [k \in 1 .. Len(wav_samples) |-> normalize(wav_samples[k])]
  /\ pc' = "create_state"
  /\ UNCHANGED << result, error, file_path, fsVars, procVars, ctx, segments, num_segments,
                  i, srt_content, fmtVars >>

WavOpenErr ==
  /\ pc = "wav_open"
  /\ ran' = ran \cup {"normalize"}
  /\ Fail("wav_open")
  /\ UNCHANGED << file_path, fsVars, procVars, memVars, fmtVars >>

\* s.unwrap() on a sample that fails to read.
SamplePanic ==
  /\ pc = "wav_open"
  /\ wav_samples # <<>>
  /\ ran' = ran \cup {"normalize"}
  /\ Panic("sample")
  /\ UNCHANGED << file_path, fsVars, procVars, memVars, fmtVars >>

\* ----------------------------------------------------------- 4. recognize
CreateStateOk ==
  /\ pc = "create_state"
  /\ ran' = ran \cup {"recognize"}
  /\ pc' = "full"
  /\ UNCHANGED << result, error, file_path, fsVars, procVars, memVars, fmtVars >>

CreateStateErr ==
  /\ pc = "create_state"
  /\ ran' = ran \cup {"recognize"}
  /\ Fail("create_state")
  /\ UNCHANGED << file_path, fsVars, procVars, memVars, fmtVars >>

\* state.full(..) succeeds: the engine holds some list of segments.
FullOk ==
  /\ pc = "full"
  /\ segments' \in SeqsUpTo(Segment, MaxSegs)
  /\ pc' = "n_segments"
  /\ UNCHANGED << result, error, file_path, ran, fsVars, procVars, ctx, audio_data,
                  num_segments, i, srt_content, fmtVars >>

\* state.full(..).expect(..) panics.
FullPanic ==
  /\ pc = "full"
  /\ Panic("full")
  /\ UNCHANGED << file_path, ran, fsVars, procVars, memVars, fmtVars >>

\* ------------------------------------------------------------- format
NSegmentsOk ==
  /\ pc = "n_segments"
  /\ ran' = ran \cup {"format"}
  /\ num_segments' = Len(segments)
  /\ srt_content' = <<>>
  /\ i' = 0
  /\ pc' = "segment_loop"
  /\ UNCHANGED << result, error, file_path, fsVars, procVars, ctx, audio_data, segments,
                  fmtVars >>

NSegmentsErr ==
  /\ pc = "n_segments"
  /\ ran' = ran \cup {"format"}
  /\ Fail("n_segments")
  /\ UNCHANGED << file_path, fsVars, procVars, memVars, fmtVars >>

\* One iteration of the loop: text, t0 and t1 of segment i are retrieved and
\* its cue block is pushed onto srt_content.
SegmentOk ==
  /\ pc = "segment_loop"
  /\ i < num_segments
  /\ srt_content' = srt_content \o srt_segment(i, segments[i + 1])
  /\ i' = i + 1
  /\ UNCHANGED << pc, result, error, file_path, ran, fsVars, procVars, ctx, audio_data,
                  segments, num_segments, fmtVars >>

\* full_get_segment_text, _t0 or _t1 fails for segment i.
SegmentErr ==
  /\ pc = "segment_loop"
  /\ i < num_segments
  /\ Fail("segment")
  /\ UNCHANGED << file_path, ran, fsVars, procVars, memVars, fmtVars >>

\* --------------------------------------------------------------- write
SrtCreateOk ==
  /\ pc = "segment_loop"
  /\ i = num_segments
  /\ ran' = ran \cup {"write"}
  /\ srt_file' = "empty"
  /\ pc' = "write_all"
  /\ UNCHANGED << result, error, file_path, model_exists, wav_file, wav_samples,
                  srt_bytes, procVars, memVars, fmtVars >>

SrtCreateErr ==
  /\ pc = "segment_loop"
  /\ i = num_segments
  /\ ran' = ran \cup {"write"}
  /\ Fail("srt_create")
  /\ UNCHANGED << file_path, fsVars, procVars, memVars, fmtVars >>

WriteAllOk ==
  /\ pc = "write_all"
  /\ srt_file' = "complete"
  /\ srt_bytes' = srt_content
  /\ pc' = "remove_file"
  /\ UNCHANGED << result, error, file_path, ran, model_exists, wav_file, wav_samples,
                  procVars, memVars, fmtVars >>

\* write_all fails after writing some proper prefix (write_all of no bytes
\* makes no write and cannot fail).
WriteAllErr ==
  /\ pc = "write_all"
  /\ srt_content # <<>>
  /\ srt_file' = "partial"
  /\ Fail("write_all")
  /\ UNCHANGED << file_path, ran, model_exists, wav_file, wav_samples, srt_bytes,
                  procVars, memVars, fmtVars >>

RemoveOk_mut ==
  /\ pc = "remove_file"
  /\ pc' = "done"
  /\ result' = "ok"
  /\ UNCHANGED << error, file_path, ran, fsVars, procVars, memVars, fmtVars >>

RemoveOk ==
  /\ pc = "remove_file"
  /\ wav_file' = "absent"
  /\ wav_samples' = <<>>
  /\ pc' = "done"
  /\ result' = "ok"
  /\ UNCHANGED << error, file_path, ran, model_exists, srt_file, srt_bytes, procVars,
                  memVars, fmtVars >>

RemoveErr ==
  /\ pc = "remove_file"
  /\ Fail("remove_file")
  /\ UNCHANGED << file_path, ran, fsVars, procVars, memVars, fmtVars >>

Next ==
  \/ PickNone \/ PickSome
  \/ SpawnOk \/ SpawnErr
  \/ CreateWavOk \/ CreateWavErr
  \/ FfmpegWrite \/ FfmpegExit
  \/ ReadFill \/ ReadPartial \/ ReadSample \/ WriteSampleErr \/ ReadEof
  \/ WaitOk \/ WaitErr
  \/ FinalizeOk \/ FinalizeErr
  \/ ModelMissing \/ ModelPresent
  \/ ModelLoadOk \/ ModelLoadErr
  \/ WavOpenOk \/ WavOpenErr \/ SamplePanic
  \/ CreateStateOk \/ CreateStateErr
  \/ FullOk \/ FullPanic
  \/ NSegmentsOk \/ NSegmentsErr
  \/ SegmentOk \/ SegmentErr
  \/ SrtCreateOk \/ SrtCreateErr
  \/ WriteAllOk \/ WriteAllErr
  \/ RemoveOk \/ RemoveErr

Spec == Init /\ [][Next]_vars

\* ------------------------------------- format_srt_time on its own inputs
FmtInit ==
  /\ PipelineInit
  /\ model_exists = TRUE
  /\ stream = <<>>
  /\ exit_code = 0
  /\ fmt_in \in TickInputs
  /\ fmt_out = <<>>

FormatTime ==
  /\ fmt_out = <<>>
  /\ fmt_out' = format_srt_time(fmt_in)
  /\ UNCHANGED << pc, result, error, file_path, ran, fsVars, procVars, memVars, fmt_in >>

FmtNext == FormatTime

FmtSpec == FmtInit /\ [][FmtNext]_vars


\* =================================================================== claims
Odd(n) == n % 2 = 1

\* Positions of main after the read loop has ended without an error.
PostLoop ==
  { "wait", "finalize", "model_check", "model_load", "wav_open", "create_state", "full",
    "n_segments", "segment_loop", "write_all", "remove_file" }

LaterStages == { "normalize", "recognize", "format", "write" }

Failed == result \in { "err", "panic" }

\* C1: a byte stream of odd total length ends the read loop in a truncation
\* error that aborts the pipeline: main never goes on past the loop (to the
\* wait, the WAV finalization and the later stages) as if the stream were
\* complete.
C1_OddStreamRaisesTruncation ==
  Odd(Len(stream)) => pc \notin PostLoop

\* C2: when ffmpeg has ended with a nonzero exit status, no normalize,
\* recognize, format or write stage runs, no subtitle file is produced, and
\* main ends with an error.
C2_NonzeroExitFailsPipeline ==
  (exit_code # 0 /\ child = "reaped") =>
     /\ ran \cap LaterStages = {}
     /\ srt_file = "absent"
     /\ (pc = "done" => Failed)

\* C3: with the model file absent, the error comes before any processing:
\* the decode process is never spawned and the transient WAV file is never
\* created.
C3_MissingModelBeforeProcessing ==
  ~model_exists => (child = "none" /\ wav_file = "absent")

\* C4: a run that ends in failure leaves no subtitle file at the output path.
C4_NoSubtitleFileOnFailure ==
  (pc = "done" /\ Failed) => srt_file = "absent"

\* ---- C5
\* The expected text of each timestamp and body, written out.
ExpectedTime(t) ==
  CASE t = 0      -> <<"0", "0", ":", "0", "0", ":", "0", "0", ",", "0", "0", "0">>
    [] t = 100    -> <<"0", "0", ":", "0", "0", ":", "0", "1", ",", "0", "0", "0">>
    [] t = 5999   -> <<"0", "0", ":", "0", "0", ":", "5", "9", ",", "9", "9", "0">>
    [] t = 360000 -> <<"0", "1", ":", "0", "0", ":", "0", "0", ",", "0", "0", "0">>

ExpectedBody(text) ==
  CASE text = <<>> -> <<>>
    [] text = <<" ">> -> <<>>
    [] text = <<" ", "a", " ", "b", "\n">> -> <<"a", " ", "b">>

ExpectedIndex(k) == << <<"1">>, <<"2">>, <<"3">>, <<"4">>, <<"5">>, <<"6">>, <<"7">>, <<"8">>, <<"9">> >>[k]

ExpectedCue(k, seg) ==
  ExpectedIndex(k) \o <<"\n">> \o ExpectedTime(seg.t0) \o <<" ", "-", "-", ">", " ">> \o ExpectedTime(seg.t1)
    \o <<"\n">> \o ExpectedBody(seg.text) \o <<"\n", "\n">>

RECURSIVE ExpectedDocument(_, _)
ExpectedDocument(segs, n) ==
  IF n = 0 THEN <<>> ELSE ExpectedDocument(segs, n - 1) \o ExpectedCue(n, segs[n])

\* C5: the document holds one cue per engine segment, in the engine's order:
\* the k-th cue has display index k and the timestamps and trimmed text of the
\* k-th segment; after i iterations the document is the first i cues, and the
\* file written is the document of all N segments, empty-text segments
\* included.
C5_CuesFollowSegments ==
  /\ pc = "segment_loop" => srt_content = ExpectedDocument(segments, i)
  /\ pc \in {"write_all", "remove_file"} =>
       srt_content = ExpectedDocument(segments, Len(segments))
  /\ srt_file = "complete" => srt_bytes = ExpectedDocument(segments, Len(segments))

C5_Witness ==
  /\ srt_file = "complete"
  /\ Len(segments) = 2
  /\ segments[1].text = <<" ">>
  /\ segments[2].text = <<" ", "a", " ", "b", "\n">>
  /\ segments[1].t0 = 5999

\* ---- C6
DigitValue(c) ==
  CASE c = "0" -> 0 [] c = "1" -> 1 [] c = "2" -> 2 [] c = "3" -> 3 [] c = "4" -> 4
    [] c = "5" -> 5 [] c = "6" -> 6 [] c = "7" -> 7 [] c = "8" -> 8 [] c = "9" -> 9

IsDigits(s) == \A k \in 1 .. Len(s) : s[k] \in {"0", "1", "2", "3", "4", "5", "6", "7", "8", "9"}

RECURSIVE ParseNum(_)
ParseNum(s) ==
  IF s = <<>> THEN 0 ELSE 10 * ParseNum(SubSeq(s, 1, Len(s) - 1)) + DigitValue(s[Len(s)])

\* C6: for a tick count t >= 0 the result of format_srt_time reads
\* HH:MM:SS,mmm where, with ms = t*10, HH is (ms/1000)/60/60 in at least two
\* digits and no more than it needs, MM is ((ms/1000)/60) % 60 and SS is
\* (ms/1000) % 60 in two digits, mmm is ms % 1000 in three digits; t = 0, 100,
\* 5999 and 360000 give 00:00:00,000, 00:00:01,000, 00:00:59,990 and
\* 01:00:00,000.
C6_TimeFormat ==
  fmt_out # <<>> =>
    LET ms == fmt_in * 10
        L  == Len(fmt_out)
        hh == SubSeq(fmt_out, 1, L - 10)
        mm == SubSeq(fmt_out, L - 8, L - 7)
        ss == SubSeq(fmt_out, L - 5, L - 4)
        mmm == SubSeq(fmt_out, L - 2, L)
    IN  /\ L >= 12
        /\ fmt_out[L - 9] = ":" /\ fmt_out[L - 6] = ":" /\ fmt_out[L - 3] = ","
        /\ IsDigits(hh) /\ IsDigits(mm) /\ IsDigits(ss) /\ IsDigits(mmm)
        /\ ParseNum(hh) = ((ms \div 1000) \div 60) \div 60
        /\ (Len(hh) > 2 => hh[1] # "0")
        /\ ParseNum(mm) = ((ms \div 1000) \div 60) % 60
        /\ ParseNum(ss) = (ms \div 1000) % 60
        /\ ParseNum(mmm) = ms % 1000
        /\ (fmt_in = 0 => fmt_out = <<"0", "0", ":", "0", "0", ":", "0", "0", ",", "0", "0", "0">>)
        /\ (fmt_in = 100 => fmt_out = <<"0", "0", ":", "0", "0", ":", "0", "1", ",", "0", "0", "0">>)
        /\ (fmt_in = 5999 => fmt_out = <<"0", "0", ":", "0", "0", ":", "5", "9", ",", "9", "9", "0">>)
        /\ (fmt_in = 360000 => fmt_out = <<"0", "1", ":", "0", "0", ":", "0", "0", ",", "0", "0", "0">>)

\* 100 hours, 59 minutes, 59.99 seconds: a three-digit hour field.
C6_Witness ==
  /\ fmt_in = 100 * 360000 + 59 * 6000 + 59 * 100 + 99
  /\ fmt_out = <<"1", "0", "0", ":", "5", "9", ":", "5", "9", ",", "9", "9", "0">>

\* C7: after a cancel in the file picker main has ended with success and has
\* done nothing: no decode process, no WAV file, no model load, no subtitle
\* file, no stage started.
C7_CancelNoEffects ==
  file_path = "none" =>
    /\ pc = "done" /\ result = "ok"
    /\ child = "none"
    /\ wav_file = "absent"
    /\ ~ctx
    /\ srt_file = "absent"
    /\ ran = {}

C7_Witness == file_path = "none" /\ pc = "done" /\ result = "ok"

C9_StagesInOrderAbortOnFailure ==
  /\ ran \in { {}, {"decode"}, {"decode", "normalize"}, {"decode", "normalize", "recognize"},
               {"decode", "normalize", "recognize", "format"},
               {"decode", "normalize", "recognize", "format", "write"} }
  /\ Failed => pc = "done"
  /\ (exit_code # 0 /\ child = "reaped") => ran \cap LaterStages = {}

\* ---- C10
\* The little-endian signed 16-bit value of each pair of the byte values,
\* written out.
ExpectedSample(lo, hi) ==
  CASE lo = 0 /\ hi = 0 -> 0
    [] lo = 255 /\ hi = 0 -> 255
    [] lo = 0 /\ hi = 255 -> -256
    [] lo = 255 /\ hi = 255 -> -1

\* C10: whatever the chunking, the samples in the WAV file are, in order, the
\* little-endian values of the byte pairs of the stream; during the loop every
\* byte ffmpeg has written is in the pipe, in the reader or in a written
\* sample (none dropped, none decoded before its pair is complete); when the
\* loop has ended on a stream of even length 2n the file holds n samples.
C10_SamplesFollowStream ==
  /\ wav_file # "absent" =>
       /\ 2 * Len(wav_samples) <= Len(stream)
       /\ \A k \in 1 .. Len(wav_samples) :
            wav_samples[k] = ExpectedSample(stream[2 * k - 1], stream[2 * k])
  /\ pc = "read_loop" =>
       /\ 2 * Len(wav_samples) + Len(buffer) + Len(bufd) + Len(pipe) = sent
       /\ buffer \o bufd \o pipe = SubSeq(stream, 2 * Len(wav_samples) + 1, sent)
  /\ (pc \in PostLoop /\ ~Odd(Len(stream))) => 2 * Len(wav_samples) = Len(stream)

\* The second sample of a four-byte stream is split by a chunk boundary: its
\* first byte is in the buffer, the first sample is written.
C10_Witness ==
  /\ pc = "read_loop"
  /\ Len(stream) = 4
  /\ wav_samples = << -256 >>
  /\ Len(buffer) = 1
  /\ sent = 3

====
